---- MODULE Spec2Model ----
(***************************************************************************)
(* A model of music.py, the classical-music metadata tagger: the FLAC      *)
(* validation and conversion (validate_flac_file, convert_to_flac), the    *)
(* tag check and tag write (has_proper_metadata, apply_metadata_to_flac),  *)
(* the safe rename (sanitize_filename, rename_file) and the two per-file   *)
(* pipelines (process_folder_normal, process_folder_audit) driven from     *)
(* main's menu loop.                                                       *)
(*                                                                         *)
(* A Python str is a sequence of one-character strings, so that split,     *)
(* lower, strip, replace, join and the substring test `in` are computed    *)
(* as Python computes them.                                                *)
(***************************************************************************)
EXTENDS Integers, Sequences, FiniteSets, TLC

VARIABLES
    fs,        \* the music folder: path -> file content
    backups,   \* ~/Desktop/music_backups: backup name -> file content
    tmp,       \* the temp output ".{stem}_converted.flac": <<>> or <<content>>
    pc,        \* where main is
    mode,      \* the pipeline chosen at the menu, with dry_run and auto_approve
    files,     \* flac_files of the running pipeline (the rglob snapshot)
    idx,       \* the loop index i of the running pipeline
    cnt,       \* processed / skipped / failed / verified / updated
    cur,       \* the file being handled: path, audio object, conversion locals
    last,      \* what the handling of the latest file did (history variable)
    oracle     \* the answer the model gives in this behaviour (index of Answers), 0
               \* before the first call

vars == <<fs, backups, tmp, pc, mode, files, idx, cnt, cur, last, oracle>>

---------------------------------------------------------------------------
(* Bounds of the model.                                                    *)

\* files in the music folder
NumFiles == 2

\* files the backup folder can take: the encoder fails once it holds that many
MaxBackups == 2

---------------------------------------------------------------------------
(* Python strings.                                                         *)

sEmpty == << >>
sMoonSonata == <<"M","o","o","n"," ","S","o","n","a","t","a">>
sMoonOp == <<"M","o","o","n"," ","S","o","n","a","t","a"," ","O","p"," ","2","7">>
sAdagio == <<"A","d","a","g","i","o">>
sBach == <<"B","a","c","h">>
sBachFull == <<"B","a","c","h",","," ","J"," ","S">>
sOp9 == <<"O","p"," ","9">>
sSymphony == <<"S","y","m","p","h","o","n","y">>
sAllegro == <<"A","l","l","e","g","r","o">>
sPollini == <<"P","o","l","l","i","n","i">>
sSuggMoon == <<"0","1"," ","-"," ","M","o","o","n"," ","S","o","n","a","t","a">>
sSuggOp == <<"0","1",":"," ","O","p"," ","9">>
sTrack == <<"t","r","a","c","k","1">>
sSong == <<"s","o","n","g">>
sSonataUp == <<"S","O","N","A","T","A">>
sNote == <<"r","i","p","p","e","d">>
sBachSr == <<"B","a","c","h",","," ","J"," ","S"," ","S","r">>
sPhil == <<"P","h","i","l">>

UpperCase == <<"A","B","C","D","E","F","G","H","I","J","K","L","M",
               "N","O","P","Q","R","S","T","U","V","W","X","Y","Z">>

LowerCase == <<"a","b","c","d","e","f","g","h","i","j","k","l","m",
               "n","o","p","q","r","s","t","u","v","w","x","y","z">>

\* str.lower() on one character
LowerChar(c) ==
    IF \E i \in 1..26 : UpperCase[i] = c
    THEN LowerCase[CHOOSE i \in 1..26 : UpperCase[i] = c]
    ELSE c

\* str.lower()
Lower(s) == [i \in 1..Len(s) |-> LowerChar(s[i])]

\* the characters str.split() and str.strip() treat as whitespace
IsSpace(c) == c \in {" ", "\t", "\n"}

RECURSIVE LStrip(_)
LStrip(s) ==
    IF s = << >> THEN << >>
    ELSE IF IsSpace(Head(s)) THEN LStrip(Tail(s)) ELSE s

RECURSIVE RStrip(_)
RStrip(s) ==
    IF s = << >> THEN << >>
    ELSE IF IsSpace(s[Len(s)]) THEN RStrip(SubSeq(s, 1, Len(s) - 1)) ELSE s

\* str.strip()
Strip(s) == RStrip(LStrip(s))

\* str.split() with no separator: the maximal runs of non-whitespace
RECURSIVE SplitFrom(_, _, _)
SplitFrom(s, word, acc) ==
    IF s = << >>
    THEN IF word = << >> THEN acc ELSE Append(acc, word)
    ELSE IF IsSpace(Head(s))
         THEN SplitFrom(Tail(s), << >>, IF word = << >> THEN acc ELSE Append(acc, word))
         ELSE SplitFrom(Tail(s), Append(word, Head(s)), acc)

Split(s) == SplitFrom(s, << >>, << >>)

\* sep.join(parts)
RECURSIVE Join(_, _)
Join(sep, parts) ==
    IF parts = << >> THEN << >>
    ELSE IF Len(parts) = 1 THEN parts[1]
    ELSE parts[1] \o sep \o Join(sep, Tail(parts))

\* needle in hay
Contains(hay, needle) ==
    \E i \in 0..(Len(hay) - Len(needle)) : SubSeq(hay, i + 1, i + Len(needle)) = needle

\* s.replace(c, '') for a one-character c
RemoveChar(s, c) == SelectSeq(s, LAMBDA x : x # c)

\* str(n) for a small natural number
Digits == <<"0","1","2","3","4","5","6","7","8","9">>

RECURSIVE StrOfNat(_)
StrOfNat(n) ==
    IF n < 10 THEN <<Digits[n + 1]>>
    ELSE StrOfNat(n \div 10) \o <<Digits[(n % 10) + 1]>>

\* str(list) of a list of plain strings: "['a', 'b']"
ReprList(l) ==
    <<"[">> \o Join(<<",", " ">>, [i \in 1..Len(l) |-> <<"'">> \o l[i] \o <<"'">>]) \o <<"]">>

---------------------------------------------------------------------------
(* JSON values of a proposal, and the proposal itself.                     *)

JNull == [t |-> "null", s |-> << >>, l |-> << >>]

JStr(str) == [t |-> "str", s |-> str, l |-> << >>]

JList(lst) == [t |-> "list", s |-> << >>, l |-> lst]

\* Python truthiness of a JSON value: None, "" and [] are falsy
Truthy(j) ==
    CASE j.t = "null" -> FALSE
      [] j.t = "str" -> j.s # << >>
      [] j.t = "list" -> j.l # << >>

\* a or b
PyOr(a, b) == IF Truthy(a) THEN a ELSE b

\* str(v)
StrOf(j) == IF j.t = "str" THEN j.s ELSE ReprList(j.l)

Keys == {"composer", "work_full", "work_short", "work", "movement", "performers",
         "orchestra", "soloists", "date", "disc", "track", "suggested_filename"}

NoFields == [k \in Keys |-> JNull]

\* What get_metadata_from_openrouter returns: None ("none"), a JSON object ("dict",
\* nonempty tells {} from an object with keys) or another JSON value ("other",
\* nonempty is its truthiness). f holds metadata.get(k) for the keys the program reads.
Proposal(kind, nonempty, fields) == [kind |-> kind, nonempty |-> nonempty, f |-> fields]

\* if metadata:
MetaTruthy(m) == m.kind # "none" /\ m.nonempty

\* metadata.get(k)
Get(m, k) == m.f[k]

---------------------------------------------------------------------------
(* FLAC tags.  A tag maps to its list of values; << >> is an absent tag.   *)

TagNames == {"COMPOSER", "ALBUM", "WORK", "TITLE", "MOVEMENT", "ARTIST", "ALBUMARTIST",
             "ORCHESTRA", "ENSEMBLE", "PERFORMER", "DATE", "DISCNUMBER", "TRACKNUMBER",
             "COMMENT"}

\* a file without Vorbis comments
NoTags == [t \in TagNames |-> << >>]

required_fields == <<"composer", "work", "title", "artist">>

\* a faulty variant of tag_options: the artist role is backed by PERFORMER
tag_options_performer(field_name) ==
    CASE field_name = "composer" -> <<"COMPOSER">>
      [] field_name = "work" -> <<"ALBUM", "WORK">>
      [] field_name = "title" -> <<"TITLE">>
      [] field_name = "artist" -> <<"PERFORMER">>

tag_options(field_name) ==
    CASE field_name = "composer" -> <<"COMPOSER">>
      [] field_name = "work" -> <<"ALBUM", "WORK">>
      [] field_name = "title" -> <<"TITLE">>
      [] field_name = "artist" -> <<"ARTIST", "ALBUMARTIST">>

\* tag in audio and audio[tag] and audio[tag][0].strip()
has_value(tags, tag) == tags[tag] # << >> /\ Strip(tags[tag][1]) # << >>

\* the missing list of has_proper_metadata, in the order of required_fields
missing_fields(tags) ==
    LET lacks(field_name) ==
            \A i \in 1..Len(tag_options(field_name)) :
                ~has_value(tags, tag_options(field_name)[i])
    IN  SelectSeq(required_fields, lacks)

\* a faulty variant of has_proper_metadata: it finds every file incomplete
never_proper(tags) == FALSE

has_proper_metadata(tags) == missing_fields(tags) = << >>

current_fields == {"COMPOSER", "ALBUM", "WORK", "TITLE", "ARTIST", "ALBUMARTIST",
                   "ORCHESTRA", "ENSEMBLE", "PERFORMER", "DATE", "DISCNUMBER",
                   "TRACKNUMBER"}

\* str(current_metadata.get(field, '') or ''), current_metadata from
\* get_current_metadata: the single value, or the list of values when there are several
CurrentStr(tags, field) ==
    IF field \notin current_fields \/ tags[field] = << >> THEN << >>
    ELSE IF Len(tags[field]) = 1 THEN tags[field][1]
    ELSE ReprList(tags[field])

---------------------------------------------------------------------------
(* apply_metadata_to_flac: the tags written from a proposal.               *)

\* audio[TAG] = value: a str becomes a one-value list, a list is kept
TagValue(j) == IF j.t = "str" THEN <<j.s>> ELSE j.l

\* a faulty variant of work_full_of: the short name first
short_first(m) == PyOr(PyOr(Get(m, "work_short"), Get(m, "work_full")), Get(m, "work"))

work_full_of(m) == PyOr(PyOr(Get(m, "work_full"), Get(m, "work_short")), Get(m, "work"))

work_short_of(m) == PyOr(PyOr(Get(m, "work_short"), Get(m, "work_full")), Get(m, "work"))

title_parts(m) ==
    (IF Truthy(work_short_of(m)) THEN <<work_short_of(m)>> ELSE << >>)
    \o (IF Truthy(Get(m, "movement")) THEN <<Get(m, "movement")>> ELSE << >>)

\* ' - '.join(title_parts) raises TypeError on a part that is not a str, and
\* ', '.join(performers) on a list is of its items
DeriveRaises(m) == \E i \in 1..Len(title_parts(m)) : title_parts(m)[i].t # "str"

\* the values assigned to each tag between audio.clear() and audio.save(); << >>
\* for a tag that gets no assignment
DeriveTags(m) ==
    LET wf == work_full_of(m)
        parts == title_parts(m)
        perf == Get(m, "performers")
        solo == Get(m, "soloists")
        opt(k) == IF Truthy(Get(m, k)) THEN TagValue(Get(m, k)) ELSE << >>
        strOpt(k) == IF Truthy(Get(m, k)) THEN <<StrOf(Get(m, k))>> ELSE << >>
        work == IF Truthy(wf) THEN TagValue(wf) ELSE << >>
        title == IF parts # << >>
                 THEN <<Join(<<" ", "-", " ">>, [i \in 1..Len(parts) |-> parts[i].s])>>
                 ELSE work
        artist == IF ~Truthy(perf) THEN << >>
                  ELSE IF perf.t = "list" THEN <<Join(<<",", " ">>, perf.l)>>
                  ELSE <<perf.s>>
        performer == IF ~Truthy(solo) THEN << >>
                     ELSE IF solo.t = "list" THEN solo.l
                     ELSE <<solo.s>>
    IN  [t \in TagNames |->
            CASE t = "COMPOSER" -> opt("composer")
              [] t \in {"ALBUM", "WORK"} -> work
              [] t = "TITLE" -> title
              [] t = "MOVEMENT" -> opt("movement")
              [] t \in {"ARTIST", "ALBUMARTIST"} -> artist
              [] t \in {"ORCHESTRA", "ENSEMBLE"} -> opt("orchestra")
              [] t = "PERFORMER" -> performer
              [] t = "DATE" -> strOpt("date")
              [] t = "DISCNUMBER" -> strOpt("disc")
              [] t = "TRACKNUMBER" -> strOpt("track")
              [] OTHER -> << >>]

\* a faulty variant of audio_clear: the tags the file had are kept
keep_tags(tags) == tags

\* audio.clear(): every Vorbis comment of the audio object is deleted
audio_clear(tags) == NoTags

\* the assignments audio[TAG] = value between audio.clear() and audio.save(), on
\* the tags base: an assigned tag gets its new values, any other tag stays as it is
AssignTags(base, m) ==
    CHOOSE res \in {[t \in TagNames |-> IF new[t] # << >> THEN new[t] ELSE base[t]] :
                       new \in {DeriveTags(m)}} : TRUE

---------------------------------------------------------------------------
(* process_folder_audit: which changes are recommended.                    *)

\* a keyword is a token longer than this
MinKeywordLen == 3

\* work_keywords = [w.lower() for w in new_work_short.split() if len(w) > 3]
work_keywords(new_work_short) ==
    LET long(w) == Len(w) > MinKeywordLen
    IN  [i \in 1..Len(SelectSeq(Split(new_work_short), long)) |->
            Lower(SelectSeq(Split(new_work_short), long)[i])]

\* matches = sum(1 for kw in work_keywords if kw in text.lower())
keyword_matches(new_work_short, text) ==
    Cardinality({i \in 1..Len(work_keywords(new_work_short)) :
                    Contains(Lower(text), work_keywords(new_work_short)[i])})

\* a faulty variant of keywords_covered: a stricter test, every keyword found
all_keywords_found(new_work_short, text) ==
    keyword_matches(new_work_short, text) >= Len(work_keywords(new_work_short))

\* matches >= len(work_keywords) * 0.5
keywords_covered(new_work_short, text) ==
    2 * keyword_matches(new_work_short, text) >= Len(work_keywords(new_work_short))

\* metadata.get(k) or ''
StrOrEmpty(m, k) == IF Truthy(Get(m, k)) THEN StrOf(Get(m, k)) ELSE << >>

\* .split() / .lower() on a value that is not a str raises AttributeError
AuditRaises(m) ==
    \E k \in {"work_short", "movement", "composer"} : Truthy(Get(m, k)) /\ Get(m, k).t # "str"

ideal_title_of(m) ==
    Join(<<" ", "-", " ">>,
         (IF StrOrEmpty(m, "work_short") # << >> THEN <<StrOrEmpty(m, "work_short")>> ELSE << >>)
         \o (IF StrOrEmpty(m, "movement") # << >> THEN <<StrOrEmpty(m, "movement")>> ELSE << >>))

current_title_has_work(tags, m) ==
    /\ StrOrEmpty(m, "work_short") # << >>
    /\ CurrentStr(tags, "TITLE") # << >>
    /\ keywords_covered(StrOrEmpty(m, "work_short"), CurrentStr(tags, "TITLE"))

title_diff(tags, m) ==
    /\ ~current_title_has_work(tags, m)
    /\ ideal_title_of(m) # << >>
    /\ Strip(Lower(CurrentStr(tags, "TITLE"))) # Strip(Lower(ideal_title_of(m)))

\* a faulty variant of composer_diff: every composer that differs is flagged
composer_differs(tags, m) ==
    /\ StrOrEmpty(m, "composer") # << >>
    /\ Strip(Lower(CurrentStr(tags, "COMPOSER"))) # Strip(Lower(StrOrEmpty(m, "composer")))

composer_diff(tags, m) ==
    LET current_composer == CurrentStr(tags, "COMPOSER")
        new_composer == StrOrEmpty(m, "composer")
    IN  /\ new_composer # << >>
        /\ Strip(Lower(current_composer)) # Strip(Lower(new_composer))
        /\ \/ current_composer = << >>
           \/ ~Contains(Lower(new_composer), Lower(current_composer))

current_has_work_in_name(stem, m) ==
    /\ StrOrEmpty(m, "work_short") # << >>
    /\ keywords_covered(StrOrEmpty(m, "work_short"), stem)

filename_diff(stem, m) ==
    /\ Truthy(Get(m, "suggested_filename"))
    /\ ~current_has_work_in_name(stem, m)
    /\ StrOf(Get(m, "suggested_filename")) # stem

\* the fields of changes_summary; changes_detected is that it is not empty
changes_summary(tags, stem, m) ==
    (IF title_diff(tags, m) THEN {"TITLE"} ELSE {})
    \cup (IF composer_diff(tags, m) THEN {"COMPOSER"} ELSE {})
    \cup (IF filename_diff(stem, m) THEN {"FILENAME"} ELSE {})

---------------------------------------------------------------------------
(* sanitize_filename and rename_file.                                      *)

invalid_chars == <<"<", ">", ":", "\"", "/", "\\", "|", "?", "*">>

MaxNameLen == 200

RECURSIVE RemoveChars(_, _)
RemoveChars(s, cs) ==
    IF cs = << >> THEN s ELSE RemoveChars(RemoveChar(s, Head(cs)), Tail(cs))

sanitize_filename(filename) ==
    LET stripped == RemoveChars(filename, invalid_chars)
        spaced == Join(<<" ">>, Split(stripped))
        cut == IF Len(spaced) > MaxNameLen THEN SubSeq(spaced, 1, MaxNameLen) ELSE spaced
    IN  Strip(cut)

\* a path in the music folder: the stem and the suffix of the file name
Path(stem, ext) == [stem |-> stem, ext |-> ext]

\* f"{new_filename} ({counter}){suffix}", and f"{new_filename}{suffix}" for counter 0
Candidate(path, new_filename, counter) ==
    IF counter = 0 THEN Path(new_filename, path.ext)
    ELSE Path(new_filename \o <<" ", "(">> \o StrOfNat(counter) \o <<")">>, path.ext)

\* a faulty variant of FreeCounter: rename_file without its conflict loop
no_conflict_loop(dir, path, new_filename) == 0

\* new_path after `while new_path.exists() and new_path != file_path`
FreeCounter(dir, path, new_filename) ==
    CHOOSE n \in 0..Cardinality(DOMAIN dir) :
        /\ ~(Candidate(path, new_filename, n) \in DOMAIN dir
             /\ Candidate(path, new_filename, n) # path)
        /\ \A k \in 0..(n - 1) :
              Candidate(path, new_filename, k) \in DOMAIN dir
              /\ Candidate(path, new_filename, k) # path

rename_target(dir, path, new_filename) ==
    Candidate(path, sanitize_filename(new_filename),
              FreeCounter(dir, path, sanitize_filename(new_filename)))

\* file_path.rename(new_path): the directory after the move
MoveFile(dir, from, to) ==
    IF from = to THEN dir
    ELSE [p \in (DOMAIN dir \ {from}) \cup {to} |-> IF p = to THEN dir[from] ELSE dir[p]]

\* a faulty variant of rename_file: after a failed move it returns the new path
rename_file_new_path(dir, path, new_filename, moveOk) ==
    IF Path(sanitize_filename(new_filename), path.ext) = path
    THEN [dir |-> dir, path |-> path, renamed |-> FALSE]
    ELSE IF moveOk
    THEN [dir |-> MoveFile(dir, path, rename_target(dir, path, new_filename)),
          path |-> rename_target(dir, path, new_filename), renamed |-> TRUE]
    ELSE [dir |-> dir, path |-> rename_target(dir, path, new_filename), renamed |-> FALSE]

\* rename_file(file_path, new_filename) -> (path, renamed), with the directory after
\* it; moveOk is whether the operating system performs the move
rename_file(dir, path, new_filename, moveOk) ==
    IF Path(sanitize_filename(new_filename), path.ext) = path
    THEN [dir |-> dir, path |-> path, renamed |-> FALSE]
    ELSE IF moveOk
    THEN [dir |-> MoveFile(dir, path, rename_target(dir, path, new_filename)),
          path |-> rename_target(dir, path, new_filename), renamed |-> TRUE]
    ELSE [dir |-> dir, path |-> path, renamed |-> FALSE]

---------------------------------------------------------------------------
(* Files.                                                                  *)

\* The bytes of a file: id names the recording the bytes come from, header is what
\* detect_actual_format reads from the first 12 bytes, parse is whether mutagen's
\* FLAC() can open the file, tags and pics are its Vorbis comments and pictures
\* (the Picture.type of each).
\* by is a history field: the pipeline and the answer (index of Answers) of the
\* latest committed tag write, and whether apply_metadata_to_flac then ran to its
\* end with no failed rename; "", 0 and FALSE when the program has not written
\* the file.
Content(id, header, parse, tags) ==
    [id |-> id, header |-> header, parse |-> parse, tags |-> tags, pics |-> << >>,
     by |-> [pipe |-> "", prop |-> 0, full |-> FALSE]]

\* validate_flac_file: the fLaC signature and a successful FLAC(file_path)
validate_flac_file(c) == c.header = "flac" /\ c.parse

\* detect_actual_format
detect_actual_format(c) ==
    IF c.header \in {"flac", "wav", "mp3", "ogg", "m4a"} THEN c.header ELSE "unknown"

\* folder.rglob('*.flac') + folder.rglob('*.FLAC')
Enumerated(dir) == {p \in DOMAIN dir : p.ext \in {"flac", "FLAC"}}

\* the sequences that list every element of S once
Orderings(S) ==
    {q \in [1..Cardinality(S) -> S] : \A i, j \in 1..Cardinality(S) : i # j => q[i] # q[j]}

\* f"{stem}_original_{actual_format}{suffix}", with _{counter} before the suffix
\* from the second try on (counter 0 is the name without it)
BackupName(path, fmt, counter) ==
    [stem |-> path.stem, fmt |-> fmt, n |-> counter, ext |-> path.ext]

\* a faulty variant of backup_path: the computed name, without the loop
first_backup_name(bk, path, fmt) == BackupName(path, fmt, 0)

\* backup_path after `while backup_path.exists()`
backup_path(bk, path, fmt) ==
    BackupName(path, fmt,
               CHOOSE n \in 0..Cardinality(DOMAIN bk) :
                   /\ BackupName(path, fmt, n) \notin DOMAIN bk
                   /\ \A k \in 0..(n - 1) : BackupName(path, fmt, k) \in DOMAIN bk)

\* a directory without files
EmptyDir == [p \in {} |-> 0]

\* dir with the file at path replaced by (or created as) content c
WriteFile(dir, path, c) == [p \in DOMAIN dir \cup {path} |-> IF p = path THEN c ELSE dir[p]]

\* dir without the file at path
RemoveFile(dir, path) == [p \in DOMAIN dir \ {path} |-> dir[p]]

---------------------------------------------------------------------------
(* The inputs: the files a music folder starts with, what the encoder may  *)
(* write, and what the model may answer.                                   *)

Fields(composer, work_full, work_short, movement, performers, suggested_filename) ==
    [NoFields EXCEPT !["composer"] = composer, !["work_full"] = work_full,
                     !["work_short"] = work_short, !["movement"] = movement,
                     !["performers"] = performers,
                     !["suggested_filename"] = suggested_filename]

\* the request or json.loads raised
PNone == Proposal("none", FALSE, NoFields)

\* {}
PEmpty == Proposal("dict", FALSE, NoFields)

\* every field null
PAllNull == Proposal("dict", TRUE, NoFields)

\* a JSON array
PArray == Proposal("other", TRUE, NoFields)

PFull ==
    Proposal("dict", TRUE,
             Fields(JStr(sBachFull), JStr(sMoonOp), JStr(sMoonSonata), JStr(sAdagio),
                    JList(<<sPollini>>), JStr(sSuggMoon)))

\* no work_short, no composer, no performers
PWorkFull ==
    Proposal("dict", TRUE,
             Fields(JNull, JStr(sSymphony), JNull, JStr(sAllegro), JNull, JNull))

\* a work_short with no token longer than 3 characters, a file name to sanitize
POpus ==
    Proposal("dict", TRUE,
             Fields(JStr(sBach), JNull, JStr(sOp9), JNull, JStr(sPollini), JStr(sSuggOp)))

\* a composer that holds the composer of PFull, the legacy work key only, two
\* performers, an orchestra, a list of soloists whose only item is "", and the file
\* name "track1"
PSoloists ==
    Proposal("dict", TRUE,
             [Fields(JStr(sBachSr), JNull, JNull, JNull, JList(<<sPollini, sBach>>),
                     JStr(sTrack))
                 EXCEPT !["work"] = JStr(sSymphony), !["orchestra"] = JStr(sPhil),
                        !["soloists"] = JList(<<sEmpty>>)])

Answers == <<PNone, PEmpty, PAllNull, PArray, PFull, PWorkFull, POpus, PSoloists>>

TagsGood == [DeriveTags(PFull) EXCEPT !["COMMENT"] = <<sNote>>]

\* COMPOSER holds two values, the first of them empty
TagsMulti == [TagsGood EXCEPT !["COMPOSER"] = <<sEmpty, sBach>>]

\* only a TITLE, which holds one of the two keywords of "Moon Sonata", in capitals
TagsTitleOnly == [NoTags EXCEPT !["TITLE"] = <<sSonataUp>>, !["COMMENT"] = <<sNote>>]

\* Picture.type of a front cover
FrontCover == 3

\* a Picture.type that is not the front cover's (4 is a back cover)
BackCover == FrontCover + 1

\* the files a folder may start with: path and content
FilePool ==
    {[path |-> Path(sTrack, "flac"), c |-> Content(1, "flac", TRUE, NoTags)],
     [path |-> Path(sSuggMoon, "flac"),
      c |-> [Content(2, "flac", TRUE, TagsGood) EXCEPT !.pics = <<FrontCover>>]],
     [path |-> Path(sSong, "flac"),
      c |-> [Content(3, "flac", TRUE, TagsTitleOnly) EXCEPT !.pics = <<BackCover>>]],
     [path |-> Path(sSong, "FLAC"), c |-> Content(4, "other", FALSE, NoTags)],
     [path |-> Path(sMoonSonata, "flac"), c |-> Content(5, "flac", TRUE, TagsMulti)],
     [path |-> Path(sTrack, "mp3"), c |-> Content(6, "other", FALSE, NoTags)],
     [path |-> Path(sSuggMoon \o <<" ", "(", "1", ")">>, "flac"),
      c |-> Content(7, "flac", TRUE, NoTags)]}

\* what ffmpeg may leave at temp_output when it exits 0: a FLAC without tags, a
\* FLAC with tags carried over from the source, or a truncated file that is no
\* valid FLAC
EncoderOutputs(c) ==
    {Content(c.id, "flac", TRUE, NoTags),
     Content(c.id, "flac", TRUE, TagsGood),
     Content(c.id, "other", FALSE, NoTags)}

---------------------------------------------------------------------------
(* The state.                                                              *)

NoPath == Path(<< >>, "")

NoContent == Content(0, "", FALSE, NoTags)

NoBackup == [stem |-> << >>, fmt |-> "", n |-> 0, ext |-> ""]

NoCur == [path |-> NoPath, audio |-> NoContent, fmt |-> "", backup |-> NoBackup]

\* force is force_overwrite of process_cover_art
NoMode == [pipe |-> "none", dry |-> FALSE, auto |-> FALSE, force |-> FALSE]

NoCnt ==
    [processed |-> 0, skipped |-> 0, failed |-> 0, verified |-> 0, updated |-> 0,
     generated |-> 0]

\* last, before anything is known of the file at path p with content c
Fresh(p, c) ==
    [path |-> p, pre |-> c, conv |-> "none", engaged |-> FALSE, infer |-> FALSE,
     prop |-> 0, diffs |-> {}, asked |-> FALSE, wrote |-> FALSE,
     renamed |-> FALSE, newpath |-> p, outcome |-> "none"]

\* The model is a stable oracle: the first call of a behaviour draws its answer
\* from Answers, and every later call gets the same answer.
OracleAnswers == IF oracle = 0 THEN 1..Len(Answers) ELSE {oracle}

Init ==
    /\ \E lib \in SUBSET FilePool :
          /\ Cardinality(lib) = NumFiles
          /\ \A f, g \in lib : f # g => f.path # g.path
          /\ fs = [p \in {f.path : f \in lib} |-> (CHOOSE f \in lib : f.path = p).c]
    /\ backups = EmptyDir
    /\ tmp = << >>
    /\ pc = "start"
    /\ mode = NoMode
    /\ files = << >>
    /\ idx = 1
    /\ cnt = NoCnt
    /\ cur = NoCur
    /\ last = Fresh(NoPath, NoContent)
    /\ oracle = 0

---------------------------------------------------------------------------
(* main: setup_openrouter, then the menu loop.                             *)

\* setup_openrouter: sys.exit(1) without OPENROUTER_API_KEY
Setup ==
    /\ pc = "start"
    /\ \E api_key \in BOOLEAN : pc' = IF api_key THEN "menu" ELSE "nokey"
    /\ UNCHANGED <<fs, backups, tmp, mode, files, idx, cnt, cur, last, oracle>>

\* the (dry_run, auto_approve) pairs main can pass to a pipeline
Modes ==
    {[pipe |-> "normal", dry |-> d, auto |-> FALSE, force |-> FALSE] : d \in BOOLEAN}
    \cup {[pipe |-> "audit", dry |-> TRUE, auto |-> FALSE, force |-> FALSE]}
    \cup {[pipe |-> "audit", dry |-> FALSE, auto |-> a, force |-> FALSE] : a \in BOOLEAN}

\* flac_files: rglob lists a folder in one order
Listing(dir) == CHOOSE order \in Orderings(Enumerated(dir)) : TRUE

\* a faulty variant of StartRun: a main that goes on to its menu after
\* setup_openrouter found no key
StartRunWithoutKey ==
    /\ pc \in {"menu", "nokey"}
    /\ mode.pipe # "cover"
    /\ \E m \in (IF mode = NoMode THEN Modes ELSE {mode}) : mode' = m
    /\ files' = IF Listing(fs) = << >> THEN << >> ELSE Listing(fs)
    /\ pc' = IF Listing(fs) = << >> THEN "menu" ELSE "loop"
    /\ idx' = 1
    /\ cnt' = NoCnt
    /\ last' = Fresh(NoPath, NoContent)
    /\ UNCHANGED <<fs, backups, tmp, cur, oracle>>

\* choice 1 or 2: process_folder_normal / process_folder_audit up to the loop;
\* with no FLAC file the pipeline returns at once. The user picks the pipeline and
\* its flags at the first run and repeats that choice (choice 6, the cover
\* generator, is StartCover).
StartRun ==
    /\ pc = "menu"
    /\ mode.pipe # "cover"
    /\ \E m \in (IF mode = NoMode THEN Modes ELSE {mode}) : mode' = m
    /\ files' = IF Listing(fs) = << >> THEN << >> ELSE Listing(fs)
    /\ pc' = IF Listing(fs) = << >> THEN "menu" ELSE "loop"
    /\ idx' = 1
    /\ cnt' = NoCnt
    /\ last' = Fresh(NoPath, NoContent)
    /\ UNCHANGED <<fs, backups, tmp, cur, oracle>>

\* choice q: the process ends, and what it held in memory with it
Quit ==
    /\ pc = "menu"
    /\ pc' = "exit"
    /\ mode' = NoMode
    /\ oracle' = 0
    /\ UNCHANGED <<fs, backups, tmp, files, idx, cnt, cur, last>>

\* the loop is over: the summary table is printed from the counters, the pipeline
\* returns to the menu and its locals are gone
Summary ==
    /\ pc = "loop"
    /\ idx > Len(files)
    /\ pc' = "menu"
    /\ files' = << >>
    /\ idx' = 1
    /\ cnt' = NoCnt
    /\ last' = Fresh(NoPath, NoContent)
    /\ UNCHANGED <<fs, backups, tmp, mode, cur, oracle>>

\* a faulty variant of Bump: the counter goes up by two
bump_twice(counter) == [cnt EXCEPT ![counter] = @ + 2]

\* counter += 1
Bump(counter) == [cnt EXCEPT ![counter] = @ + 1]

---------------------------------------------------------------------------
(* The head of the loop body: validate_flac_file, and convert_to_flac up   *)
(* to the encoder call.                                                    *)

\* a faulty variant of HandleFile: convert_to_flac looking for ffmpeg only after
\* it has moved the original to the backup folder
LateEncoderCheck ==
    /\ pc = "loop"
    /\ idx <= Len(files)
    /\ ~validate_flac_file(fs[files[idx]])
    /\ backups' = WriteFile(backups, backup_path(backups, files[idx], "unknown"),
                            fs[files[idx]])
    /\ fs' = RemoveFile(fs, files[idx])
    /\ pc' = "loop"
    /\ idx' = idx + 1
    /\ cnt' = Bump("failed")
    /\ cur' = NoCur
    /\ last' = [Fresh(files[idx], fs[files[idx]]) EXCEPT !.conv = "noffmpeg",
                                                         !.outcome = "failed"]
    /\ UNCHANGED <<tmp, mode, files, oracle>>

\* validate the next file; a valid one goes on to the pipeline's own steps, an
\* invalid one to convert_to_flac, which returns None at once when shutil.which
\* finds no ffmpeg
HandleFile ==
    /\ pc = "loop"
    /\ idx <= Len(files)
    /\ LET p == files[idx]
           c == fs[p]
       IN  IF validate_flac_file(c)
           THEN /\ pc' = "engage"
                /\ cur' = [NoCur EXCEPT !.path = p, !.audio = c]
                /\ last' = Fresh(p, c)
                /\ UNCHANGED <<idx, cnt>>
           ELSE \E ffmpeg \in BOOLEAN :
                  IF ~ffmpeg
                  THEN /\ pc' = "loop"
                       /\ idx' = idx + 1
                       /\ cnt' = Bump("failed")
                       /\ cur' = NoCur
                       /\ last' = [Fresh(p, c) EXCEPT !.conv = "noffmpeg",
                                                      !.outcome = "failed"]
                  ELSE /\ pc' = "encode"
                       /\ cur' = [NoCur EXCEPT !.path = p, !.fmt = detect_actual_format(c)]
                       /\ last' = Fresh(p, c)
                       /\ UNCHANGED <<idx, cnt>>
    /\ UNCHANGED <<fs, backups, tmp, mode, files, oracle>>

\* convert_to_flac returned None: "Skipping file", failed += 1, continue
ConvertFailed(why) ==
    /\ pc' = "loop"
    /\ idx' = idx + 1
    /\ cnt' = Bump("failed")
    /\ cur' = NoCur
    /\ last' = [last EXCEPT !.conv = why, !.outcome = "failed"]

\* a faulty variant of unlink_temp: the temp file is left where it is
keep_temp(t) == t

\* if temp_output.exists(): temp_output.unlink()
unlink_temp(t) == << >>

\* subprocess.run(ffmpeg ...): a non-zero exit (the temp file, if any, is unlinked),
\* a zero exit without the temp file, or a zero exit with it
Encode ==
    /\ pc = "encode"
    /\ \/ /\ ConvertFailed("encfail")
          /\ \E partial \in {<< >>, <<Content(fs[cur.path].id, "flac", FALSE, NoTags)>>} :
                tmp' = unlink_temp(partial)
       \/ /\ ConvertFailed("nooutput")
          /\ tmp' = << >>
       \/ /\ Cardinality(DOMAIN backups) < MaxBackups
          /\ \E out \in EncoderOutputs(fs[cur.path]) : tmp' = <<out>>
          /\ pc' = "backup"
          /\ UNCHANGED <<idx, cnt, cur, last>>
    /\ UNCHANGED <<fs, backups, mode, files, oracle>>


\* a faulty variant of MoveOriginal: convert_to_flac without the move of the
\* original to the backup folder
NoBackupMove ==
    /\ pc = "backup"
    /\ pc' = "install"
    /\ UNCHANGED <<fs, backups, tmp, mode, files, idx, cnt, cur, last, oracle>>

\* shutil.move(file_path, backup_path): the move, or it raises with nothing moved and
\* the except clause unlinks the temp file and returns None
MoveOriginal ==
    /\ pc = "backup"
    /\ LET bp == backup_path(backups, cur.path, cur.fmt)
       IN  \/ /\ backups' = WriteFile(backups, bp, fs[cur.path])
              /\ fs' = RemoveFile(fs, cur.path)
              /\ cur' = [cur EXCEPT !.backup = bp]
              /\ pc' = "install"
              /\ UNCHANGED <<tmp, idx, cnt, last>>
           \/ /\ tmp' = unlink_temp(tmp)
              /\ ConvertFailed("backupfail")
              /\ UNCHANGED <<fs, backups>>
    /\ UNCHANGED <<mode, files, oracle>>

\* shutil.move(temp_output, file_path): the move, or it raises with nothing moved and
\* the except clause unlinks the temp file and returns None
InstallConverted ==
    /\ pc = "install"
    /\ \/ /\ fs' = WriteFile(fs, cur.path, tmp[1])
          /\ tmp' = << >>
          /\ pc' = "validate"
          /\ UNCHANGED <<idx, cnt, cur, last>>
       \/ /\ tmp' = unlink_temp(tmp)
          /\ ConvertFailed("installfail")
          /\ UNCHANGED fs
    /\ UNCHANGED <<backups, mode, files, oracle>>

\* validate_flac_file(file_path) on the installed file: the audio object, or None
Revalidate ==
    /\ pc = "validate"
    /\ IF validate_flac_file(fs[cur.path])
       THEN /\ pc' = "engage"
            /\ cur' = [cur EXCEPT !.audio = fs[cur.path]]
            /\ last' = [last EXCEPT !.conv = "ok"]
            /\ UNCHANGED <<idx, cnt>>
       ELSE ConvertFailed("invalid")
    /\ UNCHANGED <<fs, backups, tmp, mode, files, oracle>>

---------------------------------------------------------------------------
(* apply_metadata_to_flac, and the pipelines' steps on a valid file.       *)

\* apply_metadata_to_flac(file_path, metadata, audio) -> (success, path), with the
\* directory after it. i is the answer's index, kept in the file's history field.
\* saveOk: audio.save() does not raise; moveOk: the rename's move does not raise.
\* An exception before save() leaves the file as it was; one after it
\* (sanitize_filename on a value that is no str) leaves the tags written.
apply_metadata_to_flac(dir, path, audio, m, i, saveOk, moveOk) ==
    LET sf == Get(m, "suggested_filename")
        full == \/ ~Truthy(sf)
                \/ /\ sf.t = "str"
                   /\ moveOk \/ Path(sanitize_filename(sf.s), path.ext) = path
        written == [audio EXCEPT !.tags = AssignTags(audio_clear(audio.tags), m),
                                 !.by = [pipe |-> mode.pipe, prop |-> i, full |-> full]]
        after_save(saved) ==
            IF ~Truthy(sf)
            THEN [dir |-> saved, success |-> TRUE, path |-> path, wrote |-> TRUE,
                  renamed |-> FALSE]
            ELSE IF sf.t # "str"
            THEN [dir |-> saved, success |-> FALSE, path |-> path, wrote |-> TRUE,
                  renamed |-> FALSE]
            ELSE CHOOSE res \in {[dir |-> r.dir, success |-> TRUE, path |-> r.path,
                                  wrote |-> TRUE, renamed |-> r.renamed] :
                                     r \in {rename_file(saved, path, sf.s, moveOk)}} : TRUE
    IN  IF DeriveRaises(m) \/ ~saveOk
        THEN [dir |-> dir, success |-> FALSE, path |-> path, wrote |-> FALSE,
              renamed |-> FALSE]
        ELSE CHOOSE res \in {after_save(saved) : saved \in {WriteFile(dir, path, written)}} :
                TRUE

\* the end of the loop body for this file: one counter, and on to the next file
Counted(counter, l) ==
    /\ pc' = "loop"
    /\ idx' = idx + 1
    /\ cnt' = Bump(counter)
    /\ cur' = NoCur
    /\ last' = [l EXCEPT !.outcome = counter]

\* an exception no except clause catches leaves the pipeline and main
Uncaught(l) ==
    /\ pc' = "crashed"
    /\ cur' = NoCur
    /\ last' = [l EXCEPT !.outcome = "aborted"]
    /\ UNCHANGED <<idx, cnt>>

\* process_folder_normal on a valid file: skip it when has_proper_metadata, else
\* ask the model and apply what it proposes
EngageNormal ==
    /\ pc = "engage"
    /\ mode.pipe = "normal"
    /\ LET p == cur.path
           audio == cur.audio
           l0 == [last EXCEPT !.engaged = TRUE]
       IN  IF has_proper_metadata(audio.tags)
           THEN /\ Counted("skipped", l0)
                /\ UNCHANGED <<fs, oracle>>
           ELSE \E i \in OracleAnswers :
                  LET m == Answers[i]
                      l1 == [l0 EXCEPT !.infer = TRUE, !.prop = i]
                  IN  /\ oracle' = i
                      /\ IF ~MetaTruthy(m)
                         THEN Counted("failed", l1) /\ UNCHANGED fs
                         ELSE IF m.kind # "dict"
                         THEN Uncaught(l1) /\ UNCHANGED fs
                         ELSE IF mode.dry
                         THEN Counted("processed", l1) /\ UNCHANGED fs
                         ELSE \E saveOk \in BOOLEAN, moveOk \in BOOLEAN :
                                \E r \in {apply_metadata_to_flac(fs, p, audio, m, i,
                                                                 saveOk, moveOk)} :
                                  /\ fs' = r.dir
                                  /\ Counted(IF r.success THEN "processed" ELSE "failed",
                                             [l1 EXCEPT !.wrote = r.wrote,
                                                        !.renamed = r.renamed,
                                                        !.newpath = r.path])
    /\ UNCHANGED <<backups, tmp, mode, files>>

\* a faulty variant of EngageAudit: the proposal is applied to every file, with no
\* look at the changes, at dry_run or at the confirmation
EngageAuditUngated ==
    /\ pc = "engage"
    /\ mode.pipe = "audit"
    /\ \E i \in OracleAnswers :
          /\ MetaTruthy(Answers[i])
          /\ Answers[i].kind = "dict"
          /\ ~AuditRaises(Answers[i])
          /\ oracle' = i
          /\ \E r \in {apply_metadata_to_flac(fs, cur.path, cur.audio, Answers[i], i,
                                               TRUE, TRUE)} :
                /\ fs' = r.dir
                /\ Counted(IF r.success THEN "updated" ELSE "failed",
                           [last EXCEPT !.engaged = TRUE, !.infer = TRUE, !.prop = i,
                                        !.diffs = changes_summary(cur.audio.tags,
                                                                  cur.path.stem, Answers[i]),
                                        !.wrote = r.wrote, !.renamed = r.renamed,
                                        !.newpath = r.path])
    /\ UNCHANGED <<backups, tmp, mode, files>>

\* process_folder_audit on a valid file: ask the model, compare, and apply the
\* proposal when changes are detected and approved. yes is Confirm.ask's answer.
EngageAudit ==
    /\ pc = "engage"
    /\ mode.pipe = "audit"
    /\ \E i \in OracleAnswers :
          LET m == Answers[i]
              p == cur.path
              audio == cur.audio
              l1 == [last EXCEPT !.engaged = TRUE, !.infer = TRUE, !.prop = i]
          IN  /\ oracle' = i
              /\ IF ~MetaTruthy(m)
                 THEN Counted("failed", l1) /\ UNCHANGED fs
                 ELSE IF m.kind # "dict" \/ AuditRaises(m)
                 THEN Uncaught(l1) /\ UNCHANGED fs
                 ELSE \E diffs \in {changes_summary(audio.tags, p.stem, m)} :
                        LET l2 == [l1 EXCEPT !.diffs = diffs]
                        IN  IF diffs = {}
                            THEN Counted("verified", l2) /\ UNCHANGED fs
                            ELSE IF mode.dry
                            THEN Counted("updated", l2) /\ UNCHANGED fs
                            ELSE \E yes \in (IF mode.auto THEN {TRUE} ELSE BOOLEAN) :
                                   IF ~yes
                                   THEN /\ Counted("skipped", [l2 EXCEPT !.asked = TRUE])
                                        /\ UNCHANGED fs
                                   ELSE \E saveOk \in BOOLEAN, moveOk \in BOOLEAN :
                                          \E r \in {apply_metadata_to_flac(fs, p, audio, m, i,
                                                                           saveOk, moveOk)} :
                                            /\ fs' = r.dir
                                            /\ Counted(
                                                 IF r.success THEN "updated" ELSE "failed",
                                                 [l2 EXCEPT !.wrote = r.wrote,
                                                            !.renamed = r.renamed,
                                                            !.newpath = r.path,
                                                            !.asked = ~mode.auto])
    /\ UNCHANGED <<backups, tmp, mode, files>>

---------------------------------------------------------------------------
(* process_cover_art.                                                      *)

\* the (dry_run, force_overwrite) pairs main can pass to process_cover_art
CoverModes ==
    {[pipe |-> "cover", dry |-> TRUE, auto |-> FALSE, force |-> FALSE]}
    \cup {[pipe |-> "cover", dry |-> FALSE, auto |-> FALSE, force |-> f] : f \in BOOLEAN}

\* list(folder.rglob("*.flac")), in one order
CoverListing(dir) == CHOOSE order \in Orderings({p \in DOMAIN dir : p.ext = "flac"}) : TRUE

\* choice 6: process_cover_art up to its loop; without Pillow it returns at once.
\* The flags are asked again at every run.
StartCover ==
    /\ pc = "menu"
    /\ mode.pipe \in {"none", "cover"}
    /\ \E m \in CoverModes : mode' = m
    /\ \E HAS_PILLOW \in BOOLEAN :
          IF HAS_PILLOW
          THEN /\ files' = CoverListing(fs)
               /\ pc' = "coverloop"
          ELSE /\ files' = << >>
               /\ pc' = "menu"
    /\ idx' = 1
    /\ cnt' = NoCnt
    /\ last' = Fresh(NoPath, NoContent)
    /\ UNCHANGED <<fs, backups, tmp, cur, oracle>>

\* a faulty variant of has_front_cover: no picture is taken for a front cover
never_front_cover(c) == FALSE

\* any(p.type == 3 for p in audio.pictures)
has_front_cover(c) == \E i \in 1..Len(c.pics) : c.pics[i] = FrontCover

\* audio.clear_pictures() when forcing, then audio.add_picture(image)
add_picture(c, force) == [c EXCEPT !.pics = (IF force THEN << >> ELSE @) \o <<FrontCover>>]

\* one of generated_count, skipped_count, failed_count, then progress.advance
CoverCounted(counter, l) ==
    /\ pc' = "coverloop"
    /\ idx' = idx + 1
    /\ cnt' = Bump(counter)
    /\ cur' = NoCur
    /\ last' = [l EXCEPT !.outcome = counter]

\* the body of the loop for one file: FLAC(flac_file) raises on a file mutagen
\* cannot open, generate_cover_image_bytes or audio.save() may raise; every
\* exception is caught and counted as failed
CoverFile ==
    /\ pc = "coverloop"
    /\ idx <= Len(files)
    /\ LET p == files[idx]
           c == fs[p]
       IN  IF ~c.parse
           THEN CoverCounted("failed", Fresh(p, c)) /\ UNCHANGED fs
           ELSE IF has_front_cover(c) /\ ~mode.force
           THEN CoverCounted("skipped", Fresh(p, c)) /\ UNCHANGED fs
           ELSE IF mode.dry
           THEN CoverCounted("generated", Fresh(p, c)) /\ UNCHANGED fs
           ELSE \E imageOk \in BOOLEAN, saveOk \in BOOLEAN :
                  IF imageOk /\ saveOk
                  THEN /\ fs' = WriteFile(fs, p, add_picture(c, mode.force))
                       /\ CoverCounted("generated", Fresh(p, c))
                  ELSE CoverCounted("failed", Fresh(p, c)) /\ UNCHANGED fs
    /\ UNCHANGED <<backups, tmp, mode, files, oracle>>

\* the loop is over: "Finished!" with the three counters, and back to the menu
CoverDone ==
    /\ pc = "coverloop"
    /\ idx > Len(files)
    /\ pc' = "menu"
    /\ files' = << >>
    /\ idx' = 1
    /\ cnt' = NoCnt
    /\ last' = Fresh(NoPath, NoContent)
    /\ UNCHANGED <<fs, backups, tmp, mode, cur, oracle>>

---------------------------------------------------------------------------
(* The program.                                                            *)

Next ==
    \/ Setup
    \/ StartRun
    \/ Quit
    \/ Summary
    \/ HandleFile
    \/ Encode
    \/ MoveOriginal
    \/ InstallConverted
    \/ Revalidate
    \/ EngageNormal
    \/ EngageAudit
    \/ StartCover
    \/ CoverFile
    \/ CoverDone

Spec == Init /\ [][Next]_vars

---------------------------------------------------------------------------
(* Properties.  last is the record of the latest file: pre is its content  *)
(* when its handling began, outcome the counter it ended in ("none" while  *)
(* it is being handled).                                                   *)

\* convert_to_flac has just returned for last.path: None (a failure), or the audio
\* object, with which the pipeline is about to go on
ConvertReturned ==
    \/ last.conv \notin {"none", "ok"}
    \/ last.conv = "ok" /\ pc = "engage"

\* the backup folder holds the bytes last.path had when its handling began
OriginalBackedUp == \E b \in DOMAIN backups : backups[b] = last.pre

\* those bytes are still at last.path
OriginalInPlace == last.path \in DOMAIN fs /\ fs[last.path] = last.pre

\* C1, as the spec states it: in every terminal outcome of convert_to_flac, either
\* (a) a valid FLAC file is at the original path and a copy of the original is in
\* the backup folder, or (b) the original bytes are still at the original path.
C1_BackupDurability ==
    ConvertReturned =>
        \/ /\ last.path \in DOMAIN fs
           /\ validate_flac_file(fs[last.path])
           /\ OriginalBackedUp
        \/ OriginalInPlace

\* C2: from the start of convert_to_flac on a file to its return, in every state
\* the original bytes are at the original path or in the backup folder, and the
\* original path holds other bytes only while the backup folder holds the original.
C2_BackupBeforeInstall ==
    (pc \in {"encode", "backup", "install", "validate"} \/ ConvertReturned) =>
        /\ OriginalInPlace \/ OriginalBackedUp
        /\ (last.path \in DOMAIN fs /\ fs[last.path] # last.pre) => OriginalBackedUp

\* C2's case: between the two moves the original is in the backup folder and the
\* original path is empty
C2_BetweenTheMoves ==
    /\ pc = "install"
    /\ last.path \notin DOMAIN fs
    /\ OriginalBackedUp
    /\ tmp # << >>

\* C3, as the spec states it: when an audit pass handles a file whose tags the
\* previous audit pass wrote (apply_metadata_to_flac ran to its end, the rename
\* included) from the same proposal, it detects no TITLE, COMPOSER or FILENAME
\* change.
C3_AuditConvergence ==
    (/\ mode.pipe = "audit"
     /\ last.outcome # "none"
     /\ last.infer
     /\ last.conv = "none"
     /\ last.pre.by = [pipe |-> "audit", prop |-> last.prop, full |-> TRUE])
    => last.diffs = {}

\* C4: a valid FLAC file whose four roles all have a value is, in every run of
\* process_folder_normal, counted as skipped with no inference call, no tag write
\* and no rename, and is left at its path with its content.
C4_NormalIdempotent ==
    (/\ mode.pipe = "normal"
     /\ last.outcome # "none"
     /\ validate_flac_file(last.pre)
     /\ missing_fields(last.pre.tags) = << >>)
    => /\ last.outcome = "skipped"
       /\ ~last.infer
       /\ ~last.wrote
       /\ ~last.renamed
       /\ OriginalInPlace

\* C4's case: a later run skips a file that an earlier run of the normal pipeline
\* completed
C4_SkippedOnLaterRun ==
    /\ mode.pipe = "normal"
    /\ last.outcome = "skipped"
    /\ last.pre.by.pipe = "normal"
    /\ OriginalInPlace

\* C5: the step that applies a proposal to a file (tag write and rename_file) leaves
\* every other file of the folder at its path with its content, and the file itself
\* at its own path or at a path that no file held.
C5_RenameCollisionSafe ==
    [][pc = "engage" =>
         /\ \A p \in DOMAIN fs \ {cur.path} : p \in DOMAIN fs' /\ fs'[p] = fs[p]
         /\ \E q \in DOMAIN fs' :
               /\ fs'[q].id = fs[cur.path].id
               /\ q # cur.path => q \notin DOMAIN fs]_vars

\* C5's case: a second file was renamed to a stem another file holds, and ended at
\* the " (1)" name while the first file kept its path
C5_SecondGetsSuffix ==
    /\ last.renamed
    /\ last.newpath = Path(sSuggMoon \o <<" ", "(", "1", ")">>, "flac")
    /\ last.newpath \in DOMAIN fs
    /\ fs[last.newpath].id = last.pre.id
    /\ Path(sSuggMoon, "flac") \in DOMAIN fs
    /\ fs[Path(sSuggMoon, "flac")].id # last.pre.id

\* the audit pipeline compared the current tags of last.path with the proposal
Compared ==
    /\ mode.pipe = "audit"
    /\ last.outcome # "none"
    /\ last.infer
    /\ last.conv = "none"
    /\ MetaTruthy(Answers[last.prop])
    /\ Answers[last.prop].kind = "dict"
    /\ ~AuditRaises(Answers[last.prop])

\* at least half of the keywords of the proposed short work name (its tokens longer
\* than 3 characters) occur in the current TITLE, case-insensitively
HalfOfKeywordsInTitle ==
    2 * keyword_matches(StrOrEmpty(Answers[last.prop], "work_short"),
                        CurrentStr(last.pre.tags, "TITLE"))
        >= Len(work_keywords(StrOrEmpty(Answers[last.prop], "work_short")))

RoleFilled(tags, field_name) ==
    \E i \in 1..Len(tag_options(field_name)) :
        \E k \in 1..Len(tags[tag_options(field_name)[i]]) :
            Strip(tags[tag_options(field_name)[i]][k]) # << >>

Roles == {required_fields[i] : i \in 1..Len(required_fields)}

\* C7, as the spec states it: for the tags the normal pipeline checks,
\* has_proper_metadata is True exactly when each of the four roles has a backing tag
\* with a value that is not blank, and its list names exactly the roles without one.
C7_RequiredFieldSet ==
    (mode.pipe = "normal" /\ last.engaged /\ last.conv = "none") =>
        /\ has_proper_metadata(last.pre.tags)
              <=> \A r \in Roles : RoleFilled(last.pre.tags, r)
        /\ {missing_fields(last.pre.tags)[i] : i \in 1..Len(missing_fields(last.pre.tags))}
              = {r \in Roles : ~RoleFilled(last.pre.tags, r)}

\* the inference failed, or proposed nothing: None, {} or an object whose fields
\* are all null
NothingProposed(m) ==
    \/ m.kind = "none"
    \/ m.kind = "dict" /\ \A k \in Keys : Get(m, k) = JNull

\* C8, as the spec states it: in both pipelines a file whose inference failed or
\* proposed nothing is counted as failed, and no tag write and no rename is done on
\* it.
C8_NothingProposedFails ==
    (last.outcome # "none" /\ last.infer /\ NothingProposed(Answers[last.prop])) =>
        /\ last.outcome = "failed"
        /\ ~last.wrote
        /\ ~last.renamed

\* C9, as the spec states it: whatever happens to a file, the pipeline goes on to
\* the next file and to its summary; no outcome takes the program out of the loop.
C9_RunNeverAborts == pc # "crashed"

\* C10, amended: when convert_to_flac finds no encoder for a file the pipeline
\* listed (a *.flac or *.FLAC file that fails validation), the file is counted as
\* failed and the run goes on; the music folder, the backup folder and the temp
\* file are as they were: the original untouched, no temp file, no backup.
C10_NoEncoderNoMutation ==
    [][(last'.conv = "noffmpeg" /\ idx' = idx + 1) =>
         /\ ~validate_flac_file(fs[files[idx]])
         /\ fs' = fs
         /\ backups' = backups
         /\ tmp' = tmp
         /\ tmp = << >>
         /\ cnt' = [cnt EXCEPT !.failed = @ + 1]
         /\ pc' = "loop"]_vars

\* C10's case: a file with an unknown header was counted as failed for want of an
\* encoder, and is at its path as it was
C10_SkippedForNoEncoder ==
    /\ last.conv = "noffmpeg"
    /\ last.outcome = "failed"
    /\ detect_actual_format(last.pre) = "unknown"
    /\ OriginalInPlace
    /\ backups = EmptyDir
    /\ tmp = << >>

\* C10, as the spec states it, in what it asks of a file named *.mp3: when a
\* pipeline's loop is over, every file of the folder with the extension .mp3 and an
\* unknown header has been one of the files the loop handled (and so was reported
\* as skipped for want of an encoder, or converted).
C10_Mp3FileHandled ==
    (pc = "loop" /\ idx > Len(files)) =>
        \A p \in DOMAIN fs :
            (p.ext = "mp3" /\ detect_actual_format(fs[p]) = "unknown") =>
                \E i \in 1..Len(files) : files[i] = p

\* apply_metadata_to_flac has just committed a tag write to the latest file, which
\* is now at last.newpath
Written == last.wrote /\ last.outcome # "none" /\ last.newpath \in DOMAIN fs

\* C11: after apply_metadata_to_flac commits a write, the tags of the file are
\* exactly the tags derived from the proposal: a tag the proposal gives no value
\* is absent, whatever the file held before (full replace, no merge).
C11_FullReplace ==
    Written =>
        \A t \in TagNames :
            fs[last.newpath].tags[t] = DeriveTags(Answers[last.prop])[t]

\* C11's case: the file held a COMMENT, which no proposal gives, and the write
\* removed it
C11_CommentGone ==
    /\ Written
    /\ last.conv = "none"
    /\ last.pre.tags["COMMENT"] = <<sNote>>
    /\ last.pre.tags["TITLE"] # << >>
    /\ fs[last.newpath].tags["COMMENT"] = << >>
    /\ fs[last.newpath].tags["TITLE"] # last.pre.tags["TITLE"]

\* the stem of last.path passes the keyword-coverage test against the proposed
\* short work name: at least half of its keywords occur in the stem
StemCoversWork ==
    /\ StrOrEmpty(Answers[last.prop], "work_short") # << >>
    /\ 2 * keyword_matches(StrOrEmpty(Answers[last.prop], "work_short"), last.path.stem)
          >= Len(work_keywords(StrOrEmpty(Answers[last.prop], "work_short")))

\* C12, as the spec states it: in the audit pipeline a file whose stem passes the
\* keyword-coverage test is not renamed and gets no FILENAME entry in the list of
\* changes, also when a TITLE or COMPOSER change makes the update apply.
C12_SensibleNameKept ==
    (Compared /\ StemCoversWork) =>
        /\ "FILENAME" \notin last.diffs
        /\ ~last.renamed
        /\ last.newpath = last.path

\* C13, as the spec states it: no tag that apply_metadata_to_flac wrote holds an
\* empty or blank value, whatever the proposal (lists with empty items included).
C13_NoBlankTagWritten ==
    Written =>
        \A t \in TagNames :
            \A k \in 1..Len(fs[last.newpath].tags[t]) :
                Strip(fs[last.newpath].tags[t][k]) # << >>

\* C14: no step removes a file from the backup folder or changes one, and the move
\* of an original into it creates a file under a name that was free: the computed
\* name, or the first free one of the names with the counters 1, 2, ...
C14_BackupsOnlyGrow ==
    [][/\ \A b \in DOMAIN backups : b \in DOMAIN backups' /\ backups'[b] = backups[b]
       /\ (pc = "backup" /\ pc' = "install") =>
             \E b \in DOMAIN backups' \ DOMAIN backups :
                /\ DOMAIN backups' = DOMAIN backups \cup {b}
                /\ backups'[b] = fs[cur.path]
                /\ b.stem = cur.path.stem /\ b.ext = cur.path.ext /\ b.fmt = cur.fmt
                /\ \A k \in 0..(b.n - 1) :
                      BackupName(cur.path, cur.fmt, k) \in DOMAIN backups]_vars

\* C14's case: a file was converted twice, and its second original is in the backup
\* folder under the name with the counter 1, next to the first
C14_SecondBackupNumbered ==
    \E b \in DOMAIN backups :
        /\ b.n = 1
        /\ [b EXCEPT !.n = 0] \in DOMAIN backups

\* C15, as the program announces it ("DRY RUN - No files will be modified"): no
\* step of a pipeline run with dry_run changes the music folder, the backup folder
\* or the temp file.
C15_DryRunModifiesNothing ==
    [][mode.dry => fs' = fs /\ backups' = backups /\ tmp' = tmp]_vars

\* C16: the first step of main is setup_openrouter, which touches no file and
\* lists none; without the credential it exits, and the program takes no step
\* after that: no pipeline is started, no file is read, converted, tagged or renamed.
C16_NoKeyNoRun ==
    [][/\ pc # "nokey"
       /\ pc = "start" =>
             /\ pc' \in {"menu", "nokey"}
             /\ UNCHANGED <<fs, backups, tmp, files, idx, cnt, cur, last, oracle>>]_vars

\* C16's case: the program has exited for want of the credential; no pipeline has
\* listed or handled a file
C16_ExitedWithoutKey ==
    /\ pc = "nokey"
    /\ mode = NoMode
    /\ files = << >>
    /\ last = Fresh(NoPath, NoContent)
    /\ backups = EmptyDir
    /\ \A p \in DOMAIN fs : fs[p].by.pipe = ""

\* C17: when the encoder exits non-zero, or exits zero without the temp output,
\* convert_to_flac returns failure: the music folder is as it was, with the source
\* at its path, nothing was moved to the backup folder, and no temp file is left.
C17_EncoderFailureClean ==
    [][(pc = "encode" /\ last'.conv \in {"encfail", "nooutput"}) =>
         /\ fs' = fs
         /\ cur.path \in DOMAIN fs' /\ fs'[cur.path] = last.pre
         /\ backups' = backups
         /\ tmp' = << >>
         /\ last'.outcome = "failed"
         /\ pc' = "loop"]_vars

\* C17's case: the encoder exited non-zero on a file; the file is at its path as it
\* was, the backup folder is empty and there is no temp file
C17_EncoderFailed ==
    /\ last.conv = "encfail"
    /\ last.outcome = "failed"
    /\ OriginalInPlace
    /\ backups = EmptyDir
    /\ tmp = << >>

\* the proposal's field k is present: a string that is not empty
Present(m, k) == Get(m, k).t = "str" /\ Get(m, k).s # << >>

\* C18, as the spec states it: the TITLE written is "{work_short} - {movement}"
\* when both are present, work_short alone when only it is present, the movement
\* alone when work_short is absent and the movement is present (whatever work_full
\* is), and the value of ALBUM/WORK when neither is present.
C18_TitleComposition ==
    Written =>
        LET m == Answers[last.prop]
            title == fs[last.newpath].tags["TITLE"]
        IN  /\ (Present(m, "work_short") /\ Present(m, "movement")) =>
                  title = <<Get(m, "work_short").s \o <<" ", "-", " ">> \o Get(m, "movement").s>>
            /\ (Present(m, "work_short") /\ ~Truthy(Get(m, "movement"))) =>
                  title = <<Get(m, "work_short").s>>
            /\ (~Truthy(Get(m, "work_short")) /\ Present(m, "movement")) =>
                  title = <<Get(m, "movement").s>>
            /\ (~Truthy(Get(m, "work_short")) /\ ~Truthy(Get(m, "movement"))) =>
                  title = fs[last.newpath].tags["ALBUM"]

\* the first non-empty of work_full, work_short and work
FirstWork(m) ==
    IF Truthy(Get(m, "work_full")) THEN Get(m, "work_full")
    ELSE IF Truthy(Get(m, "work_short")) THEN Get(m, "work_short")
    ELSE Get(m, "work")

\* the values a tag holds when it is assigned v, or no value when v is empty; a
\* list of performers is joined with ", " when joined is asked
Mirrored(v, joined) ==
    IF ~Truthy(v) THEN << >>
    ELSE IF v.t = "str" THEN <<v.s>>
    ELSE IF joined THEN <<Join(<<",", " ">>, v.l)>>
    ELSE v.l

\* C19: after a committed write ALBUM and WORK are both absent or both the first
\* non-empty of work_full, work_short and work; ARTIST and ALBUMARTIST are both
\* absent or both the joined performers; ORCHESTRA and ENSEMBLE are both absent or
\* both the orchestra.
C19_MirroredPairs ==
    Written =>
        LET m == Answers[last.prop]
            tags == fs[last.newpath].tags
        IN  /\ tags["ALBUM"] = Mirrored(FirstWork(m), FALSE)
            /\ tags["WORK"] = tags["ALBUM"]
            /\ tags["ARTIST"] = Mirrored(Get(m, "performers"), TRUE)
            /\ tags["ALBUMARTIST"] = tags["ARTIST"]
            /\ tags["ORCHESTRA"] = Mirrored(Get(m, "orchestra"), FALSE)
            /\ tags["ENSEMBLE"] = tags["ORCHESTRA"]

\* C19's case: a write from a proposal with the legacy work key, two performers
\* and an orchestra
C19_ThreePairsWritten ==
    /\ Written
    /\ fs[last.newpath].tags["WORK"] = <<sSymphony>>
    /\ fs[last.newpath].tags["ALBUMARTIST"] = <<sPollini \o <<",", " ">> \o sBach>>
    /\ fs[last.newpath].tags["ENSEMBLE"] = <<sPhil>>

\* the proposed composer and the current one of the compared file, as the audit
\* reads them
ProposedComposer == StrOrEmpty(Answers[last.prop], "composer")

CurrentComposer == CurrentStr(last.pre.tags, "COMPOSER")

\* C20: the audit lists a COMPOSER change exactly when the proposed composer is not
\* empty, differs from the current one (case-insensitive, trimmed), and the current
\* one is empty or is no case-insensitive substring of the proposed one.
C20_ComposerDiff ==
    Compared =>
        ("COMPOSER" \in last.diffs
            <=> /\ ProposedComposer # << >>
                /\ Strip(Lower(CurrentComposer)) # Strip(Lower(ProposedComposer))
                /\ \/ CurrentComposer = << >>
                   \/ \A i \in 0..(Len(ProposedComposer) - Len(CurrentComposer)) :
                         Lower(SubSeq(ProposedComposer, i + 1, i + Len(CurrentComposer)))
                             # Lower(CurrentComposer))

\* C20's case: the current composer "Bach, J S" is part of the proposed
\* "Bach, J S Sr", and no COMPOSER change is listed
C20_SubstringNotFlagged ==
    /\ Compared
    /\ CurrentComposer = sBachFull
    /\ ProposedComposer = sBachSr
    /\ "COMPOSER" \notin last.diffs

\* the step wrote the tags of cur.path and went on to rename_file with the
\* proposal's suggested_filename
RenameCalled ==
    /\ pc = "engage"
    /\ last'.wrote
    /\ Present(Answers[last'.prop], "suggested_filename")

\* f"{new_filename}{file_path.suffix}" for the sanitized suggested_filename
WantedPath ==
    Path(sanitize_filename(Get(Answers[last'.prop], "suggested_filename").s), cur.path.ext)

\* C21, as the spec states it: when the sanitized stem with the original extension
\* is the file's path, rename_file reports no rename and the folder holds the same
\* paths; whenever else it reports a rename, the new path has the original
\* extension, the file is at it, and no file is at the old path any more.
C21_RenameFrame ==
    [][RenameCalled =>
         IF WantedPath = cur.path
         THEN /\ ~last'.renamed
              /\ last'.newpath = cur.path
              /\ DOMAIN fs' = DOMAIN fs
         ELSE last'.renamed =>
                /\ last'.newpath.ext = cur.path.ext
                /\ last'.newpath \in DOMAIN fs'
                /\ cur.path \notin DOMAIN fs']_vars

\* the tags of the latest file were written and rename_file, called with a name
\* other than the file's own, renamed nothing: its move failed
MoveFailed ==
    /\ last.wrote
    /\ last.outcome # "none"
    /\ Present(Answers[last.prop], "suggested_filename")
    /\ Path(sanitize_filename(Get(Answers[last.prop], "suggested_filename").s),
            last.path.ext) # last.path
    /\ ~last.renamed

\* C22: when the move in rename_file fails, nothing is raised: the file is still at
\* its original path, which is the path returned, the tags written before the
\* rename are in the file, and apply_metadata_to_flac reports success (the file is
\* counted as processed or updated).
C22_FailedMoveKeepsWrite ==
    MoveFailed =>
        /\ last.newpath = last.path
        /\ last.path \in DOMAIN fs
        /\ fs[last.path].id = last.pre.id
        /\ fs[last.path].tags = DeriveTags(Answers[last.prop])
        /\ last.outcome \in {"processed", "updated"}
        /\ pc # "crashed"

\* C22's case: the move of track1.flac to the proposed name failed after its tags
\* were written
C22_TaggedNotRenamed ==
    /\ MoveFailed
    /\ last.path = Path(sTrack, "flac")
    /\ fs[last.path].tags["COMPOSER"] = <<sBachFull>>
    /\ last.outcome = "processed"

\* C23: in the audit pipeline every valid file goes to the model, whatever its
\* tags; the step on a file writes tags or renames (changes the music folder at
\* all) only if changes were detected, dry_run is false, and auto_approve is true
\* or the confirmation was asked and answered yes; a file the user declines is
\* counted as skipped and the folder is as it was.
C23_AuditGate ==
    [][(pc = "engage" /\ mode.pipe = "audit") =>
         /\ last'.infer
         /\ (last'.wrote \/ last'.renamed \/ fs' # fs) =>
               /\ last'.diffs # {}
               /\ ~mode.dry
               /\ mode.auto \/ (last'.asked /\ last'.outcome # "skipped")
         /\ (last'.asked /\ ~last'.wrote /\ last'.outcome # "failed") =>
               /\ last'.outcome = "skipped"
               /\ cnt' = [cnt EXCEPT !.skipped = @ + 1]
               /\ fs' = fs
         /\ last'.outcome = "skipped" => (last'.asked /\ last'.diffs # {} /\ ~mode.dry)]_vars

\* C23's case: a file with all four roles filled went to the model, changes were
\* detected, the user declined, and the file is at its path as it was
C23_DeclinedKept ==
    /\ mode.pipe = "audit"
    /\ last.outcome = "skipped"
    /\ last.asked
    /\ last.infer
    /\ last.diffs # {}
    /\ has_proper_metadata(last.pre.tags)
    /\ OriginalInPlace

\* the counters of a pipeline's summary
CountersOf(pipe) ==
    IF pipe = "normal" THEN {"processed", "skipped", "failed"}
    ELSE IF pipe = "audit" THEN {"verified", "updated", "skipped", "failed"}
    ELSE {}

\* the sum of the summary's counters
RECURSIVE SumOf(_, _)
SumOf(c, names) ==
    IF names = {} THEN 0
    ELSE LET k == CHOOSE x \in names : TRUE IN c[k] + SumOf(c, names \ {k})

\* C24: in process_folder_normal and process_folder_audit every step that ends the
\* handling of a file adds one to exactly one counter of the pipeline's summary and
\* no other step changes a counter, so that after k files the counters of the
\* summary sum to k, and at the end of the loop to the number of listed files.
C24_OneCounterPerFile ==
    [][mode'.pipe \in {"normal", "audit"} =>
         /\ idx' = idx + 1 =>
               \E k \in CountersOf(mode'.pipe) : cnt' = [cnt EXCEPT ![k] = @ + 1]
         /\ idx' = idx => cnt' = cnt
         /\ SumOf(cnt', CountersOf(mode'.pipe)) = idx' - 1
         /\ SumOf(cnt', DOMAIN cnt') = idx' - 1
         /\ (pc' = "loop" /\ idx' > Len(files')) =>
               SumOf(cnt', CountersOf(mode'.pipe)) = Len(files')]_vars

\* C24's case: the loop of a pipeline is over two files, one counted as failed and
\* one as skipped
C24_TwoFilesCounted ==
    /\ pc = "loop"
    /\ idx > Len(files)
    /\ Len(files) = 2
    /\ cnt.failed = 1
    /\ cnt.skipped = 1

\* the value v of a proposal gives a tag whose first value is not blank
NonBlank(v, joined) ==
    /\ Mirrored(v, joined) # << >>
    /\ Strip(Mirrored(v, joined)[1]) # << >>

\* the proposal carries a composer, a work name (the first non-empty of work_full,
\* work_short and work) and performers, none of them blank
CarriesRequired(m) ==
    /\ NonBlank(Get(m, "composer"), FALSE)
    /\ NonBlank(FirstWork(m), FALSE)
    /\ NonBlank(Get(m, "performers"), TRUE)

---------------------------------------------------------------------------
(* Cover art without force_overwrite.                                      *)

\* one pass of process_cover_art's loop body with force_overwrite false
CoverStepNoForce ==
    /\ pc = "coverloop"
    /\ pc' = "coverloop"
    /\ idx' = idx + 1
    /\ ~mode.force

\* the pictures s are still there, in place and in order, in t
KeptIn(s, t) == Len(s) <= Len(t) /\ SubSeq(t, 1, Len(s)) = s

\* the file at q in dir carries a picture of type 3
FrontCovered(dir, q) == \E i \in 1..Len(dir[q].pics) : dir[q].pics[i] = FrontCover

\* C26: a pass of process_cover_art with force_overwrite false changes no file
\* but the one it is at, changes nothing but that file's pictures and removes
\* none of them; a file that already has a front cover is left as it is and
\* counted as skipped; and in a live run without a failure every file passed
\* so far has a front cover, so that a later run without force skips them all.
C26_CoverArtNoForce ==
    [][CoverStepNoForce =>
        LET p == files[idx]
        IN  /\ DOMAIN fs' = DOMAIN fs
            /\ \A q \in DOMAIN fs :
                  /\ KeptIn(fs[q].pics, fs'[q].pics)
                  /\ [fs'[q] EXCEPT !.pics = fs[q].pics] = fs[q]
                  /\ q # p => fs'[q] = fs[q]
            /\ FrontCovered(fs, p) =>
                  /\ fs' = fs
                  /\ cnt' = [cnt EXCEPT !.skipped = @ + 1]
            /\ (~mode.dry /\ cnt'.failed = 0) =>
                  \A i \in 1..idx : FrontCovered(fs', files[i])
    ]_vars

\* C26's case: a run without force has skipped every file, one of them a file
\* whose front cover an earlier live run without force added after its back cover
C26_SecondRunSkipsAll ==
    /\ pc = "coverloop"
    /\ ~mode.force
    /\ ~mode.dry
    /\ idx > Len(files)
    /\ cnt.skipped = Len(files)
    /\ cnt.generated = 0
    /\ \E i \in 1..Len(files) : fs[files[i]].pics = <<BackCover, FrontCover>>

====
